---- MODULE Spec2Model ----
(***************************************************************************)
(* Model of troop_calendar_sync.py: the link extractor, the per-link       *)
(* detail parsing of main, and the calendar serializer build_ics.          *)
(*                                                                         *)
(* A Python str is a sequence of one-character strings, so that the        *)
(* regular expressions and the str methods of the source are computed      *)
(* character by character.                                                 *)
(***************************************************************************)
EXTENDS FiniteSets, Integers, Sequences, TLC

VARIABLES
    pc,           \* position of the run: see the actions
    listing,      \* the FormList page: its elements, in document order
    now,          \* the wall clock read by datetime.now (local year, UTC stamp)
    found_links,  \* value returned by extract_event_links_from_form_list
    links,        \* main: links
    i,            \* main: loop index over links (1-based, as enumerate(start=1))
    url,          \* main: url
    title_guess,  \* main: title_guess
    detail_html,  \* main: text content of the detail page just fetched
    text,         \* main: text (flattened)
    dtstart,      \* main: dtstart
    dtend,        \* main: dtend
    all_day,      \* main: all_day
    events,       \* main: events
    ics,          \* main: ics (the string build_ics returned)
    file,         \* content of OUTPUT_ICS
    err,          \* the exception that left main, or None
    ics_in,       \* serializer runs: the last two argument lists of build_ics
    ics_out       \* serializer runs: the strings build_ics returned for them

vars == <<pc, listing, now, found_links, links, i, url, title_guess, detail_html,
          text, dtstart, dtend, all_day, events, ics, file, err, ics_in, ics_out>>

\* Python's None.
None == [none |-> TRUE]

-----------------------------------------------------------------------------
(* str helpers *)

UpperCase == <<"A","B","C","D","E","F","G","H","I","J","K","L","M","N","O","P","Q","R","S","T","U","V","W","X","Y","Z">>
LowerCase == <<"a","b","c","d","e","f","g","h","i","j","k","l","m","n","o","p","q","r","s","t","u","v","w","x","y","z">>
Digit == {"0","1","2","3","4","5","6","7","8","9"}
Whitespace == {" ", "\n", "\r", "\t"}

\* str.lower on one character (re.I compares case-insensitively)
Lower(c) ==
    IF \E k \in 1..26 : UpperCase[k] = c
    THEN LowerCase[CHOOSE k \in 1..26 : UpperCase[k] = c]
    ELSE c

MinOf(S) == CHOOSE x \in S : \A y \in S : x <= y
MaxOf(S) == CHOOSE x \in S : \A y \in S : x >= y

\* s[p:p+len(lit)] == lit
MatchAt(s, p, lit) ==
    /\ p >= 1
    /\ p + Len(lit) - 1 <= Len(s)
    /\ \A k \in 1..Len(lit) : s[p + k - 1] = lit[k]

\* the same under re.I
MatchAtI(s, p, lit) ==
    /\ p >= 1
    /\ p + Len(lit) - 1 <= Len(s)
    /\ \A k \in 1..Len(lit) : Lower(s[p + k - 1]) = Lower(lit[k])

\* lit in s
Contains(s, lit) == \E p \in 1..Len(s) : MatchAt(s, p, lit)

\* s.startswith(lit)
StartsWith(s, lit) == MatchAt(s, 1, lit)

\* last index e >= p-1 with s[p..e] all inside Class (a greedy  [class]*  at p):
\* the first place from p-1 on that the end of s or a character outside follows
RunEnd(s, p, Class) ==
    MinOf({e \in (p-1)..Len(s) : e = Len(s) \/ s[e + 1] \notin Class})

\* s.strip()
Strip(s) ==
    IF s = <<>> THEN s
    ELSE IF s[1] \notin Whitespace /\ s[Len(s)] \notin Whitespace THEN s
    ELSE LET keep == {k \in 1..Len(s) : s[k] \notin Whitespace}
         IN  IF keep = {} THEN <<>> ELSE SubSeq(s, MinOf(keep), MaxOf(keep))

\* s.lstrip("/")
LStripSlash(s) ==
    LET keep == {k \in 1..Len(s) : s[k] # "/"}
    IN  IF keep = {} THEN <<>> ELSE SubSeq(s, MinOf(keep), Len(s))

\* the k-th smallest member of a finite set of integers
Nth(S, k) == CHOOSE x \in S : Cardinality({y \in S : y <= x}) = k

\* " ".join(s.split()): runs of whitespace become one space, none at the ends.
\* Kept are the characters that are not whitespace, and the first whitespace
\* character of every run that has something on both sides.
Collapse(s) ==
    LET keep == {k \in 1..Len(s) :
                    \/ s[k] \notin Whitespace
                    \/ /\ \E a \in 1..(k - 1) : s[a] \notin Whitespace
                       /\ \E b \in (k + 1)..Len(s) : s[b] \notin Whitespace
                       /\ s[k - 1] \notin Whitespace}
    IN  [j \in 1..Cardinality(keep) |->
            IF s[Nth(keep, j)] \in Whitespace THEN " " ELSE s[Nth(keep, j)]]

\* s.replace(old, new): the occurrences of old from the left, none overlapping
RECURSIVE ReplaceFrom(_, _, _, _)
ReplaceFrom(s, p, old, new) ==
    LET hits == {q \in p..Len(s) : MatchAt(s, q, old)}
    IN  IF hits = {} THEN SubSeq(s, p, Len(s))
        ELSE SubSeq(s, p, MinOf(hits) - 1) \o new
             \o ReplaceFrom(s, MinOf(hits) + Len(old), old, new)

Replace(s, old, new) == ReplaceFrom(s, 1, old, new)

\* s[:n]
Take(s, n) == SubSeq(s, 1, IF Len(s) < n THEN Len(s) ELSE n)

\* sep.join(parts)
RECURSIVE Join(_, _)
Join(sep, parts) ==
    IF parts = <<>> THEN <<>>
    ELSE IF Len(parts) = 1 THEN parts[1]
    ELSE LET half == Len(parts) \div 2
         IN  Join(sep, SubSeq(parts, 1, half)) \o sep
             \o Join(sep, SubSeq(parts, half + 1, Len(parts)))

-----------------------------------------------------------------------------
(* The FormList page.  An element is [tag, href, onclick, text]: href and  *)
(* onclick are the attribute values as written in the page source (<<>>    *)
(* when the attribute is absent), text is the element's text content.      *)

Amp == <<"&">>
AmpEntity == <<"&","a","m","p",";">>

\* What BeautifulSoup hands out for an attribute value or a text node: the
\* character references of the source are decoded (of them, &amp; is modelled).
Unescape(raw) == Replace(raw, AmpEntity, Amp)

\* The page source of one element, as content.content() returns it.
RenderElement(el) ==
    <<"<">> \o el.tag
    \o (IF el.href = <<>> THEN <<>> ELSE <<" ","h","r","e","f","=","\"">> \o el.href \o <<"\"">>)
    \o (IF el.onclick = <<>> THEN <<>> ELSE <<" ","o","n","c","l","i","c","k","=","\"">> \o el.onclick \o <<"\"">>)
    \o <<">">> \o el.text \o <<"<","/">> \o el.tag \o <<">">>

RECURSIVE RenderPage(_)
RenderPage(page) ==
    IF page = <<>> THEN <<>>
    ELSE RenderElement(Head(page)) \o <<"\n">> \o RenderPage(Tail(page))

FormDetailMarker == <<"F","o","r","m","D","e","t","a","i","l",".","a","s","p","x">>
FormDetailQuery == <<"F","o","r","m","D","e","t","a","i","l",".","a","s","p","x","?">>
IdParam == <<"I","D","=">>
HttpPrefix == <<"h","t","t","p">>
SiteBase == <<"h","t","t","p","s",":","/","/","w","w","w",".","t","r","o","o","p","w","e","b","h","o","s","t",".","o","r","g","/">>
QuoteOrParen == {"'", "\"", "(", ")"}
QuoteAngleSpace == {"\"", "'", "<", ">", " "}

\* re.search(r"FormDetail\.aspx\?[^'\"()]+", href, re.I): the leftmost place
\* where the marker is followed by at least one character outside the class;
\* the class run is greedy.  <<>> when there is no match.
SearchFormDetail(href) ==
    LET starts == {p \in 1..Len(href) :
                      /\ MatchAtI(href, p, FormDetailQuery)
                      /\ p + Len(FormDetailQuery) <= Len(href)
                      /\ href[p + Len(FormDetailQuery)] \notin QuoteOrParen}
    IN  IF starts = {} THEN <<>>
        ELSE LET p == MinOf(starts)
                 allowed == {href[k] : k \in 1..Len(href)} \ QuoteOrParen
             IN  SubSeq(href, p, RunEnd(href, p + Len(FormDetailQuery), allowed))

\* add_href without the test of line 67 (accepts any nonempty reference)
add_href_NoIdCheck(found, href0, txt) ==
    IF href0 = <<>> THEN found
    ELSE LET stripped == Strip(href0)
             m == SearchFormDetail(stripped)
             href == IF m # <<>> THEN m ELSE stripped
         IN  IF ~Contains(href, FormDetailMarker) THEN found
             ELSE Append(found,
                         [url |-> IF StartsWith(href, HttpPrefix) THEN href
                                  ELSE SiteBase \o LStripSlash(href),
                          title |-> Collapse(txt)])

\* add_href(href, text): appends to found, or leaves it alone
add_href(found, href0, txt) ==
    IF href0 = <<>> THEN found
    ELSE LET stripped == Strip(href0)
             m == SearchFormDetail(stripped)
             href == IF m # <<>> THEN m ELSE stripped
         IN  IF ~Contains(href, FormDetailMarker) \/ ~Contains(href, IdParam)
             THEN found
             ELSE Append(found,
                         [url |-> IF StartsWith(href, HttpPrefix) THEN href
                                  ELSE SiteBase \o LStripSlash(href),
                          title |-> Collapse(txt)])

\* a.get_text(" ", strip=True) of an element holding one text node
GetText(el) == Strip(Unescape(el.text))

\* 1) for a in soup.select("a"): the href, then the onclick of each anchor
RECURSIVE AnchorPass(_, _)
AnchorPass(found, page) ==
    IF page = <<>> THEN found
    ELSE LET a == Head(page)
         IN  IF a.tag = <<"a">>
             THEN AnchorPass(add_href(add_href(found, Unescape(a.href), GetText(a)),
                                      Unescape(a.onclick), GetText(a)),
                             Tail(page))
             ELSE AnchorPass(found, Tail(page))

\* 2) for el in soup.select("[onclick]"): every element carrying an onclick
RECURSIVE OnclickPass(_, _)
OnclickPass(found, page) ==
    IF page = <<>> THEN found
    ELSE LET el == Head(page)
         IN  IF el.onclick # <<>>
             THEN OnclickPass(add_href(found, Unescape(el.onclick), GetText(el)),
                              Tail(page))
             ELSE OnclickPass(found, Tail(page))

\* One match of r"FormDetail\.aspx\?[^\"'<> ]*ID=\d+[^\"'<> ]*" (re.I) at p.
\* Every character of "ID=" and every digit is inside the class, so the two
\* class runs and ID=\d+ together cover exactly the maximal class run after
\* the "?": the match ends where that run ends, and exists iff the run holds
\* "ID=" followed by a digit.  0 when there is no match at p.
RawMatchEnd(raw, p) ==
    IF ~MatchAtI(raw, p, FormDetailQuery) THEN 0
    ELSE LET q == p + Len(FormDetailQuery)
             allowed == {raw[k] : k \in 1..Len(raw)} \ QuoteAngleSpace
             e == RunEnd(raw, q, allowed)
         IN  IF \E k \in q..(e - Len(IdParam)) :
                    MatchAtI(raw, k, IdParam) /\ raw[k + Len(IdParam)] \in Digit
             THEN e ELSE 0

\* 3) for m in re.finditer(..., html, re.I): add_href(m.group(0), ""), the
\* matches taken from the left, each search starting where the last match ended
RECURSIVE RegexPass(_, _, _)
RegexPass(found, raw, p) ==
    LET starts == {q \in p..Len(raw) : RawMatchEnd(raw, q) # 0}
    IN  IF starts = {} THEN found
        ELSE LET q == MinOf(starts)
                 e == RawMatchEnd(raw, q)
             IN  RegexPass(add_href(found, SubSeq(raw, q, e), <<>>), raw, e + 1)

\* the deduplication loop without its membership test
RECURSIVE Deduplicate_KeepAll(_, _)
Deduplicate_KeepAll(found, out) ==
    IF found = <<>> THEN out
    ELSE Deduplicate_KeepAll(Tail(found), Append(out, Head(found)))

\* Deduplicate: lines 99-105 (seen is the set of urls of out)
RECURSIVE Deduplicate(_, _)
Deduplicate(found, out) ==
    IF found = <<>> THEN out
    ELSE LET x == Head(found)
         IN  IF \E k \in 1..Len(out) : out[k].url = x.url
             THEN Deduplicate(Tail(found), out)
             ELSE Deduplicate(Tail(found), Append(out, x))

\* found after the three passes, before deduplication
FoundInPage(page) ==
    RegexPass(OnclickPass(AnchorPass(<<>>, page), page), RenderPage(page), 1)

extract_event_links_from_form_list(page) == Deduplicate(FoundInPage(page), <<>>)

-----------------------------------------------------------------------------
(* datetime values.  A datetime is [year, month, day, hour, minute]; every *)
(* datetime of main carries tzinfo LOCAL_TZ, seconds are always zero.      *)

\* LOCAL_TZ = timezone(timedelta(hours=-5)): the offset, in hours
LOCAL_TZ == -5

\* int(s) of a string of digits
DigitValue(c) == CHOOSE n \in 0..9 : <<"0","1","2","3","4","5","6","7","8","9">>[n + 1] = c

RECURSIVE ToInt(_)
ToInt(s) ==
    IF s = <<>> THEN 0
    ELSE 10 * ToInt(SubSeq(s, 1, Len(s) - 1)) + DigitValue(s[Len(s)])

\* the decimal digits of n, zero-padded to width w (strftime's %m %d %H %M, and
\* %Y for the four-digit years of the model)
RECURSIVE Pad(_, _)
Pad(n, w) ==
    IF w = 0 THEN <<>>
    ELSE Pad(n \div 10, w - 1) \o <<<<"0","1","2","3","4","5","6","7","8","9">>[(n % 10) + 1]>>

IsLeap(y) == (y % 4 = 0 /\ y % 100 # 0) \/ y % 400 = 0

DaysInMonth(y, m) ==
    IF m \in {1, 3, 5, 7, 8, 10, 12} THEN 31
    ELSE IF m \in {4, 6, 9, 11} THEN 30
    ELSE IF IsLeap(y) THEN 29 ELSE 28

\* the arguments datetime(...) and datetime.replace(...) accept
ValidDateTime(y, m, d, hh, mi) ==
    /\ y \in 1..9999
    /\ m \in 1..12
    /\ d \in 1..DaysInMonth(y, m)
    /\ hh \in 0..23
    /\ mi \in 0..59

ValueError == [raise |-> "ValueError"]
OverflowError == [raise |-> "OverflowError"]
TimeoutError == [raise |-> "TimeoutError"]
Raises(v) == "raise" \in DOMAIN v

\* dt + timedelta(days=1); OverflowError past datetime.max
PlusOneDay(dt) ==
    IF dt.day < DaysInMonth(dt.year, dt.month)
    THEN [dt EXCEPT !.day = @ + 1]
    ELSE IF dt.month < 12
    THEN [dt EXCEPT !.day = 1, !.month = @ + 1]
    ELSE IF dt.year < 9999
    THEN [dt EXCEPT !.day = 1, !.month = 1, !.year = @ + 1]
    ELSE OverflowError

\* dt + timedelta(hours=h), 0 <= h < 24
PlusHours(dt, h) ==
    IF dt.hour + h < 24
    THEN [dt EXCEPT !.hour = @ + h]
    ELSE LET next == PlusOneDay(dt)
         IN  IF Raises(next) THEN next
             ELSE [next EXCEPT !.hour = dt.hour + h - 24]

\* dt.strftime("%m/%d/%Y"); %Y in four digits, as the C runtime of the
\* program's platform writes it (OUTPUT_ICS, line 36, is a Windows path)
StrfMDY(dt) == Pad(dt.month, 2) \o <<"/">> \o Pad(dt.day, 2) \o <<"/">> \o Pad(dt.year, 4)

-----------------------------------------------------------------------------
(* dateutil.parser.parse on the two shapes main hands it:                  *)
(*    a/b/y            (line 299)                                          *)
(*    mm/dd/yyyy h:mm AM|PM   (line 327)                                   *)

\* index of the first occurrence of character c in s at or after p, 0 if none
IndexFrom(s, c, p) ==
    LET hits == {k \in p..Len(s) : s[k] = c}
    IN  IF hits = {} THEN 0 ELSE MinOf(hits)

\* parserinfo.convertyear: a year below 100 with no century given is taken in
\* the century of the current year, then moved to within 50 years of it
ConvertYear(year, century_specified, this_year) ==
    IF year < 100 /\ ~century_specified
    THEN LET y == year + (this_year \div 100) * 100
         IN  IF y >= this_year + 50 THEN y - 100
             ELSE IF y < this_year - 50 THEN y + 100
             ELSE y
    ELSE year

\* _ymd.resolve_ymd for three numbers with dayfirst=False, yearfirst=False:
\* <<year, month, day>>.  A first number above 31 is a year, one above 12 is a day.
ResolveYmd(n1, n2, n3) ==
    IF n1 > 31 THEN <<n1, n2, n3>>
    ELSE IF n1 > 12 THEN <<n3, n2, n1>>
    ELSE <<n3, n1, n2>>

\* the time of day "h:mm AM|PM" denotes, or ValueError (_ampm_valid wants an
\* hour of 0..12; _adjust_ampm maps 12 AM to 0 and adds 12 to a PM hour below 12)
ParseClock(tok) ==
    LET colon == IndexFrom(tok, ":", 1)
        hour == ToInt(SubSeq(tok, 1, colon - 1))
        minute == ToInt(SubSeq(tok, colon + 1, colon + 2))
        pm == Lower(tok[Len(tok) - 1]) = "p"
    IN  IF hour > 12 THEN ValueError
        ELSE [hour |-> IF pm /\ hour < 12 THEN hour + 12
                       ELSE IF ~pm /\ hour = 12 THEN 0
                       ELSE hour,
              minute |-> minute]

dateutil_parse(s, this_year) ==
    LET sp == IndexFrom(s, " ", 1)
        date == IF sp = 0 THEN s ELSE SubSeq(s, 1, sp - 1)
        s1 == IndexFrom(date, "/", 1)
        s2 == IndexFrom(date, "/", s1 + 1)
        t1 == SubSeq(date, 1, s1 - 1)
        t2 == SubSeq(date, s1 + 1, s2 - 1)
        t3 == SubSeq(date, s2 + 1, Len(date))
        \* _ymd.append: a numeric string longer than two digits names the year
        century_specified == Len(t3) > 2
        ymd == ResolveYmd(ToInt(t1), ToInt(t2), ToInt(t3))
        year == ConvertYear(ymd[1], century_specified, this_year)
        clock == IF sp = 0 THEN [hour |-> 0, minute |-> 0]
                 ELSE ParseClock(Strip(SubSeq(s, sp + 1, Len(s))))
    IN  IF Raises(clock) THEN ValueError
        ELSE IF ~ValidDateTime(year, ymd[2], ymd[3], clock.hour, clock.minute)
        THEN ValueError
        ELSE [year |-> year, month |-> ymd[2], day |-> ymd[3],
              hour |-> clock.hour, minute |-> clock.minute]

-----------------------------------------------------------------------------
(* The regular expressions of main's link loop.  A search result is        *)
(* [from, to], the span of the leftmost match, or None.                    *)

CharAt(s, p) == IF p \in 1..Len(s) THEN s[p] ELSE ""

AllDigits(s, p, n) == \A k \in p..(p + n - 1) : CharAt(s, k) \in Digit

Leftmost(s, EndAt(_, _)) ==
    LET starts == {p \in 1..Len(s) : EndAt(s, p) # 0}
    IN  IF starts = {} THEN None
        ELSE [from |-> MinOf(starts), to |-> EndAt(s, MinOf(starts))]

\* r"\d{1,2}/\d{1,2}/\d{2,4}" at p: the end of the match, 0 if none.  The "/"
\* after each of the first two groups fixes their lengths; the last group is
\* greedy, so of the lengths that fit the longest is taken.
DateTokenEnd(s, p) ==
    LET fits == {t \in {1, 2} \X {1, 2} \X {2, 3, 4} :
                    /\ AllDigits(s, p, t[1])
                    /\ CharAt(s, p + t[1]) = "/"
                    /\ AllDigits(s, p + t[1] + 1, t[2])
                    /\ CharAt(s, p + t[1] + t[2] + 1) = "/"
                    /\ AllDigits(s, p + t[1] + t[2] + 2, t[3])}
    IN  IF fits = {} THEN 0
        ELSE MaxOf({p + t[1] + t[2] + t[3] + 1 : t \in fits})

\* re.search(r"(\d{1,2}/\d{1,2}/\d{2,4})", text)
SearchDate(s) == Leftmost(s, DateTokenEnd)

\* r"\((\d{2})/(\d{2})/(\d{2,4})\)" at p: the end of the match, 0 if none
TitleDateEnd(s, p) ==
    LET fits == {n \in {2, 3, 4} :
                    /\ CharAt(s, p) = "("
                    /\ AllDigits(s, p + 1, 2)
                    /\ CharAt(s, p + 3) = "/"
                    /\ AllDigits(s, p + 4, 2)
                    /\ CharAt(s, p + 6) = "/"
                    /\ AllDigits(s, p + 7, n)
                    /\ CharAt(s, p + 7 + n) = ")"}
    IN  IF fits = {} THEN 0 ELSE p + 7 + MaxOf(fits)

\* re.search(r"\((\d{2})/(\d{2})/(\d{2,4})\)", title_guess)
SearchTitleDate(s) == Leftmost(s, TitleDateEnd)

\* r"\d{1,2}:\d{2}\s*(AM|PM)" under re.I at p: the end of the match, 0 if none
ClockTokenEnd(s, p) ==
    LET fits == {n \in {1, 2} :
                    /\ AllDigits(s, p, n)
                    /\ CharAt(s, p + n) = ":"
                    /\ AllDigits(s, p + n + 1, 2)
                    /\ LET q == RunEnd(s, p + n + 3, Whitespace) + 1
                       IN  /\ Lower(CharAt(s, q)) \in {"a", "p"}
                           /\ Lower(CharAt(s, q + 1)) = "m"}
    IN  IF fits = {} THEN 0
        ELSE RunEnd(s, p + MaxOf(fits) + 3, Whitespace) + 2

\* re.search(r"(\d{1,2}:\d{2}\s*(AM|PM))", text, re.I)
SearchClock(s) == Leftmost(s, ClockTokenEnd)

LocationLabel == <<"L","o","c","a","t","i","o","n",":">>

\* re.search(r"Location:\s*(.+?)(?:\s{2,}|$)", text, re.I) on flattened text
\* (which holds no line break): group 1, stripped; "" when there is no match.
\* The lazy group stops at the first place followed by two whitespace
\* characters or by the end of the text.
Location(s) ==
    LET starts == {p \in 1..Len(s) :
                      /\ MatchAtI(s, p, LocationLabel)
                      /\ RunEnd(s, p + Len(LocationLabel), Whitespace) < Len(s)}
    IN  IF starts = {} THEN <<>>
        ELSE LET q == RunEnd(s, MinOf(starts) + Len(LocationLabel), Whitespace) + 1
                 e == MinOf({k \in q..Len(s) :
                                \/ k = Len(s)
                                \/ /\ CharAt(s, k + 1) \in Whitespace
                                   /\ CharAt(s, k + 2) \in Whitespace})
             IN  Strip(SubSeq(s, q, e))

\* r"\s*\(\d{1,2}/\d{1,2}/\d{2,4}\)\s*$" matched from "(" at p
TrailingDateAt(s, p) ==
    /\ CharAt(s, p) = "("
    /\ LET e == DateTokenEnd(s, p + 1)
       IN  /\ e # 0
           /\ CharAt(s, e + 1) = ")"
           /\ RunEnd(s, e + 2, Whitespace) = Len(s)

\* re.sub(r"\s*\(\d{1,2}/\d{1,2}/\d{2,4}\)\s*$", "", title_guess).strip()
Summary(title) ==
    LET opens == {p \in 1..Len(title) : TrailingDateAt(title, p)}
    IN  IF opens = {} THEN Strip(title)
        ELSE Strip(SubSeq(title, 1, MinOf(opens) - 1))

-----------------------------------------------------------------------------
(* Per-link parsing of main (lines 293-350)                                *)

Midnight(y, m, d) == [year |-> y, month |-> m, day |-> d, hour |-> 0, minute |-> 0]

\* date resolution that looks at the title before the text
ResolveDate_TitleFirst(txt, title, this_year) ==
    LET m2 == SearchTitleDate(title)
        m == SearchDate(txt)
        mm == ToInt(SubSeq(title, m2.from + 1, m2.from + 2))
        dd == ToInt(SubSeq(title, m2.from + 4, m2.from + 5))
        yy == ToInt(SubSeq(title, m2.from + 7, m2.to - 1))
        year == IF yy < 100 THEN yy + 2000 ELSE yy
    IN  IF m2 # None
        THEN IF ValidDateTime(year, mm, dd, 0, 0) THEN Midnight(year, mm, dd)
             ELSE ValueError
        ELSE IF m = None THEN None
        ELSE dateutil_parse(SubSeq(txt, m.from, m.to), this_year)

\* date resolution that falls back to the first day of the current year
ResolveDate_Placeholder(txt, title, this_year) ==
    LET m == SearchDate(txt)
        parsed == IF m = None THEN None
                  ELSE dateutil_parse(SubSeq(txt, m.from, m.to), this_year)
    IN  IF parsed # None /\ ~Raises(parsed) THEN parsed
        ELSE Midnight(this_year, 1, 1)

\* lines 293-312: dtstart, None when no date is found, or the ValueError that
\* datetime(...) of line 312 raises (nothing catches it)
ResolveDate(txt, title, this_year) ==
    LET m == SearchDate(txt)
        parsed == IF m = None THEN None
                  ELSE dateutil_parse(SubSeq(txt, m.from, m.to), this_year)
        from_text == IF parsed = None \/ Raises(parsed) THEN None ELSE parsed
        m2 == SearchTitleDate(title)
    IN  IF from_text # None THEN from_text
        ELSE IF m2 = None THEN None
        ELSE LET mm == ToInt(SubSeq(title, m2.from + 1, m2.from + 2))
                 dd == ToInt(SubSeq(title, m2.from + 4, m2.from + 5))
                 yy == ToInt(SubSeq(title, m2.from + 7, m2.to - 1))
                 year == IF yy < 100 THEN yy + 2000 ELSE yy
             IN  IF ValidDateTime(year, mm, dd, 0, 0)
                 THEN Midnight(year, mm, dd)
                 ELSE ValueError

\* time resolution whose timed events last one hour
ResolveTime_OneHour(txt, start, this_year) ==
    LET tm == SearchClock(txt)
        start2 == IF tm = None THEN None
                  ELSE dateutil_parse(StrfMDY(start) \o <<" ">> \o SubSeq(txt, tm.from, tm.to),
                                      this_year)
    IN  IF Raises(PlusOneDay(start)) THEN PlusOneDay(start)
        ELSE IF start2 = None \/ Raises(start2)
        THEN [all_day |-> TRUE, dtstart |-> start, dtend |-> PlusOneDay(start)]
        ELSE [all_day |-> FALSE, dtstart |-> start2, dtend |-> PlusHours(start2, 1)]

\* time resolution whose all-day events end when they start
ResolveTime_NoDay(txt, start, this_year) ==
    LET tm == SearchClock(txt)
        start2 == IF tm = None THEN None
                  ELSE dateutil_parse(StrfMDY(start) \o <<" ">> \o SubSeq(txt, tm.from, tm.to),
                                      this_year)
    IN  IF start2 = None \/ Raises(start2)
        THEN [all_day |-> TRUE, dtstart |-> start, dtend |-> start]
        ELSE [all_day |-> FALSE, dtstart |-> start2, dtend |-> PlusHours(start2, 2)]

\* lines 319-332: [all_day, dtstart, dtend], or the OverflowError of line 320.
\* Line 328 has assigned dtstart when line 329 raises into "except: pass".
ResolveTime(txt, start, this_year) ==
    LET end_of_day == PlusOneDay(start)
        tm == SearchClock(txt)
        start2 == IF tm = None THEN None
                  ELSE dateutil_parse(StrfMDY(start) \o <<" ">> \o SubSeq(txt, tm.from, tm.to),
                                      this_year)
    IN  IF Raises(end_of_day) THEN end_of_day
        ELSE IF start2 = None \/ Raises(start2)
        THEN [all_day |-> TRUE, dtstart |-> start, dtend |-> end_of_day]
        ELSE IF Raises(PlusHours(start2, 2))
        THEN [all_day |-> TRUE, dtstart |-> start2, dtend |-> end_of_day]
        ELSE [all_day |-> FALSE, dtstart |-> start2, dtend |-> PlusHours(start2, 2)]

\* text[:2000]
DescriptionCap == 2000

\* the dict of lines 342-350
MakeEvent(u, title, txt, when) ==
    [summary |-> Summary(title),
     dtstart |-> when.dtstart,
     dtend |-> when.dtend,
     description |-> Take(txt, DescriptionCap),
     location |-> Location(txt),
     url |-> u,
     all_day |-> when.all_day]

-----------------------------------------------------------------------------
(* build_ics                                                               *)

CRLF == <<"\r","\n">>
NL == <<"\n">>
EscapedNL == <<"\\","n">>

\* str.encode("utf-8", errors="ignore"): the bytes, written as Python writes
\* them in a bytes literal (an ASCII character stands for its own byte).  The
\* characters outside ASCII of the model are U+00E9 and the lone surrogate
\* U+D800, which cannot be encoded and is left out.
EncodeChar(c) ==
    IF c = "U+D800" THEN <<>>
    ELSE IF c = "U+00E9" THEN <<"\\xc3", "\\xa9">>
    ELSE <<c>>

RECURSIVE EncodeUtf8(_)
EncodeUtf8(s) ==
    IF s = <<>> THEN <<>>
    ELSE IF Len(s) = 1 THEN EncodeChar(s[1])
    ELSE LET half == Len(s) \div 2
         IN  EncodeUtf8(SubSeq(s, 1, half)) \o EncodeUtf8(SubSeq(s, half + 1, Len(s)))

\* hashlib.sha1(b).hexdigest(): forty hexadecimal digits that depend on the
\* bytes alone, kept as one item naming the digest (no two byte strings of the
\* model share a digest)
RECURSIVE Sha1Of(_)
Sha1Of(bytes) ==
    IF bytes = <<>> THEN ""
    ELSE IF Len(bytes) = 1 THEN bytes[1]
    ELSE LET half == Len(bytes) \div 2
         IN  Sha1Of(SubSeq(bytes, 1, half)) \o Sha1Of(SubSeq(bytes, half + 1, Len(bytes)))

Sha1HexDigest(bytes) == <<"sha1:" \o Sha1Of(bytes)>>

\* a uid that also hashes the start of the event
UidOf_WithStart(ev) ==
    Sha1HexDigest(EncodeUtf8(ev.url \o <<"|">> \o ev.summary \o StrfMDY(ev.dtstart)))
    \o <<"@","t","r","o","o","p","w","e","b","h","o","s","t">>

\* lines 137-138
UidOf(ev) ==
    Sha1HexDigest(EncodeUtf8(ev.url \o <<"|">> \o ev.summary)) \o <<"@","t","r","o","o","p","w","e","b","h","o","s","t">>

\* dt.strftime("%Y%m%d")
StrfDate(dt) == Pad(dt.year, 4) \o Pad(dt.month, 2) \o Pad(dt.day, 2)

\* dt.strftime("%Y%m%dT%H%M%SZ") of a datetime with seconds
StrfStamp(dt, second) ==
    StrfDate(dt) \o <<"T">> \o Pad(dt.hour, 2) \o Pad(dt.minute, 2) \o Pad(second, 2) \o <<"Z">>

\* fmt_dt: dt.astimezone(timezone.utc), formatted.  (astimezone raises past
\* datetime.max; main hands over no such event, line 320 having raised for a
\* start on the last day, and the serializer runs draw none.)
fmt_dt(dt) == StrfStamp(PlusHours(dt, 0 - LOCAL_TZ), 0)

HeaderLines ==
    << <<"B","E","G","I","N",":","V","C","A","L","E","N","D","A","R">>, <<"V","E","R","S","I","O","N",":","2",".","0">>, <<"P","R","O","D","I","D",":","-","/","/","T","r","o","o","p","C","a","l","e","n","d","a","r","S","y","n","c","/","/","E","N">>,
       <<"C","A","L","S","C","A","L","E",":","G","R","E","G","O","R","I","A","N">>, <<"M","E","T","H","O","D",":","P","U","B","L","I","S","H">> >>

\* lines 157-168: the LOCATION and DESCRIPTION lines, when they are not empty
OptionalLines(ev) ==
    LET loc == Strip(Replace(ev.location, NL, <<" ">>))
        desc_parts == (IF ev.description # <<>> THEN <<Strip(ev.description)>> ELSE <<>>)
                      \o (IF ev.url # <<>> THEN <<Strip(ev.url)>> ELSE <<>>)
        desc == Replace(Join(EscapedNL \o EscapedNL, desc_parts), NL, EscapedNL)
    IN  (IF loc # <<>> THEN << <<"L","O","C","A","T","I","O","N",":">> \o loc >> ELSE <<>>)
        \o (IF desc # <<>> THEN << <<"D","E","S","C","R","I","P","T","I","O","N",":">> \o desc >> ELSE <<>>)

\* an event block whose END:VEVENT is appended inside the "if loc:" branch
EventLines_EndInsideLocation(ev, now_utc) ==
    << <<"B","E","G","I","N",":","V","E","V","E","N","T">>, <<"U","I","D",":">> \o UidOf(ev), <<"D","T","S","T","A","M","P",":">> \o now_utc >>
    \o (IF ev.all_day
        THEN << <<"D","T","S","T","A","R","T",";","V","A","L","U","E","=","D","A","T","E",":">> \o StrfDate(ev.dtstart),
                <<"D","T","E","N","D",";","V","A","L","U","E","=","D","A","T","E",":">> \o StrfDate(ev.dtend) >>
        ELSE << <<"D","T","S","T","A","R","T",":">> \o fmt_dt(ev.dtstart), <<"D","T","E","N","D",":">> \o fmt_dt(ev.dtend) >>)
    \o << <<"S","U","M","M","A","R","Y",":">> \o Strip(Replace(ev.summary, NL, <<" ">>)) >>
    \o OptionalLines(ev)
    \o (IF Strip(Replace(ev.location, NL, <<" ">>)) # <<>> THEN << <<"E","N","D",":","V","E","V","E","N","T">> >> ELSE <<>>)

\* lines 137-170: the lines of one event
EventLines(ev, now_utc) ==
    << <<"B","E","G","I","N",":","V","E","V","E","N","T">>, <<"U","I","D",":">> \o UidOf(ev), <<"D","T","S","T","A","M","P",":">> \o now_utc >>
    \o (IF ev.all_day
        THEN << <<"D","T","S","T","A","R","T",";","V","A","L","U","E","=","D","A","T","E",":">> \o StrfDate(ev.dtstart),
                <<"D","T","E","N","D",";","V","A","L","U","E","=","D","A","T","E",":">> \o StrfDate(ev.dtend) >>
        ELSE << <<"D","T","S","T","A","R","T",":">> \o fmt_dt(ev.dtstart), <<"D","T","E","N","D",":">> \o fmt_dt(ev.dtend) >>)
    \o << <<"S","U","M","M","A","R","Y",":">> \o Strip(Replace(ev.summary, NL, <<" ">>)) >>
    \o OptionalLines(ev)
    \o << <<"E","N","D",":","V","E","V","E","N","T">> >>

RECURSIVE AllEventLines(_, _)
AllEventLines(evs, now_utc) ==
    IF evs = <<>> THEN <<>>
    ELSE EventLines(Head(evs), now_utc) \o AllEventLines(Tail(evs), now_utc)

\* build_ics(events), with the clock it reads on line 134
build_ics(evs, clock) ==
    Join(CRLF, HeaderLines \o AllEventLines(evs, StrfStamp(clock, clock.second))
               \o << <<"E","N","D",":","V","C","A","L","E","N","D","A","R">> >>)
    \o CRLF

-----------------------------------------------------------------------------
(* Inputs of the model                                                     *)

\* most links of a FormList page of the pipeline runs
MaxLinks == 2
\* most elements of a FormList page of the extractor runs
MaxElements == 2
\* most events handed to build_ics in the serializer runs
MaxEvents == 2

\* the clocks a run may start under: datetime.now(timezone.utc), whose year is
\* also the year dateutil resolves two-digit years against
Clocks ==
    { [year |-> 2026, month |-> 11, day |-> 5, hour |-> 19, minute |-> 43, second |-> 7],
      [year |-> 2080, month |-> 3, day |-> 1, hour |-> 8, minute |-> 0, second |-> 59] }

Element(tag, href, onclick, txt) ==
    [tag |-> tag, href |-> href, onclick |-> onclick, text |-> txt]

\* link texts of the event list: a dated title, a title whose date is no
\* calendar date, and no text at all
LinkTitles == { <<"C","a","m","p","o","u","t"," ","(","0","2","/","1","4","/","2","6",")">>, <<"H","i","k","e"," ","(","1","3","/","4","5","/","2","6",")">>, <<>> }

\* the k-th link of a pipeline page: an anchor to event 54+k of form 182 under
\* one of the titles, or an anchor to another form
LinkChoices(k) ==
    { Element(<<"a">>, <<"F","o","r","m","D","e","t","a","i","l",".","a","s","p","x","?","F","o","r","m","_","I","D","=","1","8","2","&","I","D","=">> \o Pad(54 + k, 2), <<>>, t) :
        t \in LinkTitles }
    \cup { Element(<<"a">>, <<"F","o","r","m","D","e","t","a","i","l",".","a","s","p","x","?","F","o","r","m","_","I","D","=","7","&","I","D","=">> \o Pad(54 + k, 2), <<>>, <<"R","o","s","t","e","r">>) }

PipelinePages ==
    UNION { {page \in [1..n -> UNION {LinkChoices(k) : k \in 1..n}] :
                \A k \in 1..n : page[k] \in LinkChoices(k)} : n \in 0..MaxLinks }

\* elements of the extractor runs: the idioms of the docstring and the
\* references add_href has to tell apart
ElementPool ==
    { Element(<<"a">>, <<"F","o","r","m","D","e","t","a","i","l",".","a","s","p","x","?","F","o","r","m","_","I","D","=","1","8","2","&","I","D","=","5","5">>, <<>>, <<"C","a","m","p","o","u","t"," ","(","0","2","/","1","4","/","2","6",")">>),
      Element(<<"t","r">>, <<>>, <<"L","i","n","k","T","o","(","'","F","o","r","m","D","e","t","a","i","l",".","a","s","p","x","?","F","o","r","m","_","I","D","=","1","8","2","&","I","D","=","5","5","'",",","'","'",")">>, <<"R","o","w"," "," ","5","5">>),
      Element(<<"a">>, <<"F","o","r","m","D","e","t","a","i","l",".","a","s","p","x","?","F","o","r","m","_","I","D","=","1","8","2","&","a","m","p",";","I","D","=","5","5">>, <<>>, <<"A","m","p">>),
      Element(<<"a">>, <<"#">>, <<"L","i","n","k","T","o","(","'","F","o","r","m","D","e","t","a","i","l",".","a","s","p","x","?","F","o","r","m","_","I","D","=","1","8","2","&","I","D","=","5","6","'",",","'","'",")">>, <<"H","i","k","e">>),
      Element(<<"a">>, <<"h","t","t","p","s",":","/","/","w","w","w",".","t","r","o","o","p","w","e","b","h","o","s","t",".","o","r","g","/","F","o","r","m","D","e","t","a","i","l",".","a","s","p","x","?","F","o","r","m","_","I","D","=","1","8","2","&","I","D","=","5","6">>, <<>>,
              <<"A","b","s">>),
      Element(<<"a">>, <<"F","o","r","m","D","e","t","a","i","l",".","a","s","p","x","?","I","D","=","a","b","c">>, <<>>, <<"N","o","N","u","m","b","e","r">>),
      Element(<<"a">>, <<"f","o","r","m","d","e","t","a","i","l",".","a","s","p","x","?","I","D","=","7">>, <<>>, <<"l","o","w","e","r">>),
      Element(<<"a">>, <<"h","t","t","p",":","/","/","h","/","F","o","r","m","D","e","t","a","i","l",".","a","s","p","x","#","I","D","=","5">>, <<>>, <<"F","r","a","g">>),
      Element(<<"a">>, <<"F","o","r","m","D","e","t","a","i","l",".","a","s","p","x","?","M","e","n","u","=","3">>, <<>>, <<"N","o","I","d">>),
      Element(<<"a">>, <<"O","t","h","e","r",".","a","s","p","x","?","I","D","=","9">>, <<>>, <<"O","t","h","e","r">>) }

ExtractorPages == UNION { [1..n -> ElementPool] : n \in 0..MaxElements }

\* text content of the detail pages (soup.get_text("\n", strip=True))
DetailPages ==
    { <<"M","e","e","t","i","n","g"," ","3","/","5","/","2","0","2","6"," ","a","t"," ","7",":","0","0"," ","P","M">>,
      <<"B","r","i","n","g"," "," ","g","e","a","r","\n","L","o","c","a","t","i","o","n",":"," ","H","a","l","l">>,
      <<"D","u","e"," ","1","/","1","7","/","2","6">>,
      <<"O","n"," ","1","3","/","4","5","/","2","0","2","6">>,
      <<"1","3","/","5","/","2","0","2","6">>,
      <<"3","/","5","/","2","0","2","6"," ","1","3",":","0","0"," ","P","M">>,
      <<"S","t","a","r","t","s"," ","7",":","3","0","p","m">>,
      <<"1","2","/","3","1","/","9","9","9","9">> }

\* events of the serializer runs: two that agree on url and summary and
\* differ in everything else, and one whose fields hold line breaks
EventPool ==
    { [summary |-> <<"C","a","m","p","o","u","t">>, url |-> <<"u","?","I","D","=","5","5">>, all_day |-> TRUE,
       dtstart |-> Midnight(2026, 2, 14), dtend |-> Midnight(2026, 2, 15),
       description |-> <<"B","r","i","n","g"," ","g","e","a","r">>, location |-> <<"H","a","l","l">>],
      [summary |-> <<"C","a","m","p","o","u","t">>, url |-> <<"u","?","I","D","=","5","5">>, all_day |-> FALSE,
       dtstart |-> [year |-> 2026, month |-> 12, day |-> 31, hour |-> 19, minute |-> 0],
       dtend |-> [year |-> 2026, month |-> 12, day |-> 31, hour |-> 21, minute |-> 0],
       description |-> <<>>, location |-> <<>>],
      [summary |-> <<"A","\n","B">>, url |-> <<"u","?","I","D","=","5","6">>, all_day |-> TRUE,
       dtstart |-> Midnight(2027, 1, 1), dtend |-> Midnight(2027, 1, 2),
       description |-> <<"x","\r","\n","E","N","D",":","V","E","V","E","N","T","\r","\n","B","E","G","I","N",":","V","E","V","E","N","T">>, location |-> <<>>] }

EventLists == UNION { [1..n -> EventPool] : n \in 0..MaxEvents }

-----------------------------------------------------------------------------
(* The run of main from the FormList page on (lines 259-356)               *)

Idle ==
    /\ found_links = <<>> /\ links = <<>> /\ i = 1
    /\ url = <<>> /\ title_guess = <<>> /\ detail_html = <<>> /\ text = <<>>
    /\ dtstart = None /\ dtend = None /\ all_day = TRUE
    /\ events = <<>> /\ ics = None /\ file = None /\ err = None
    /\ ics_in = <<>> /\ ics_out = <<>>

Init ==
    /\ pc = "list"
    /\ listing \in PipelinePages
    /\ now \in Clocks
    /\ Idle

\* the filter of lines 264-265
IsEventLink(x) == Contains(x.url, <<"F","o","r","m","_","I","D","=","1","8","2">>) /\ Contains(x.url, IdParam)

\* lines 260-269: extract the links of the listing, keep those of form 182
ExtractLinks ==
    /\ pc = "list"
    /\ found_links' = extract_event_links_from_form_list(listing)
    /\ links' = SelectSeq(found_links', IsEventLink)
    /\ events' = <<>>
    /\ i' = 1
    /\ pc' = "loop"
    /\ UNCHANGED <<listing, now, url, title_guess, detail_html, text, dtstart, dtend,
                   all_day, ics, file, err, ics_in, ics_out>>

\* re.search(r"ID=(\d+)", url): group 1, or "unknown"
EventId(u) ==
    LET starts == {p \in 1..Len(u) : MatchAt(u, p, IdParam) /\ CharAt(u, p + 3) \in Digit}
    IN  IF starts = {} THEN <<"u","n","k","n","o","w","n">>
        ELSE SubSeq(u, MinOf(starts) + 3, RunEnd(u, MinOf(starts) + 3, Digit))

\* lines 270-275: the next link
NextLink ==
    /\ pc = "loop"
    /\ i <= Len(links)
    /\ url' = links[i].url
    /\ title_guess' = IF links[i].title # <<>> THEN links[i].title
                      ELSE <<"(","u","n","t","i","t","l","e","d",")"," ","I","D","=">> \o EventId(links[i].url)
    /\ pc' = "goto"
    /\ UNCHANGED <<listing, now, found_links, links, i, detail_html, text, dtstart, dtend,
                   all_day, events, ics, file, err, ics_in, ics_out>>

\* lines 279-286: the detail page arrives
FetchDetail ==
    /\ pc = "goto"
    /\ \E page \in DetailPages : detail_html' = page
    /\ pc' = "parse"
    /\ UNCHANGED <<listing, now, found_links, links, i, url, title_guess, text, dtstart,
                   dtend, all_day, events, ics, file, err, ics_in, ics_out>>

\* lines 279-284: page.goto, get_content_frame or wait_for raises; nothing in
\* main catches it, so it leaves main
FetchFails ==
    /\ pc = "goto"
    /\ err' = TimeoutError
    /\ pc' = "raised"
    /\ UNCHANGED <<listing, now, found_links, links, i, url, title_guess, detail_html, text,
                   dtstart, dtend, all_day, events, ics, file, ics_in, ics_out>>

\* lines 287-350: one detail page, to the append, the continue or the raise
ParseDetail ==
    /\ pc = "parse"
    /\ \E txt \in {Collapse(detail_html)} :
       \E date \in {ResolveDate(txt, title_guess, now.year)} :
       \E when \in {IF date = None \/ Raises(date) THEN None
                    ELSE ResolveTime(txt, date, now.year)} :
           /\ text' = txt
           /\ IF Raises(date)
              THEN /\ err' = date
                   /\ pc' = "raised"
                   /\ dtstart' = None
                   /\ UNCHANGED <<i, dtend, all_day, events>>
              ELSE IF date = None
              THEN /\ dtstart' = None
                   /\ pc' = "loop"
                   /\ i' = i + 1
                   /\ UNCHANGED <<dtend, all_day, events, err>>
              ELSE IF Raises(when)
              THEN /\ err' = when
                   /\ pc' = "raised"
                   /\ dtstart' = date
                   /\ all_day' = TRUE
                   /\ UNCHANGED <<i, dtend, events>>
              ELSE /\ dtstart' = when.dtstart
                   /\ dtend' = when.dtend
                   /\ all_day' = when.all_day
                   /\ events' = Append(events, MakeEvent(url, title_guess, txt, when))
                   /\ pc' = "loop"
                   /\ i' = i + 1
                   /\ UNCHANGED err
    /\ UNCHANGED <<listing, now, found_links, links, url, title_guess, detail_html, ics,
                   file, ics_in, ics_out>>

\* line 352, after the last link
BuildIcs ==
    /\ pc = "loop"
    /\ i > Len(links)
    /\ ics' = build_ics(events, now)
    /\ pc' = "write"
    /\ UNCHANGED <<listing, now, found_links, links, i, url, title_guess, detail_html, text,
                   dtstart, dtend, all_day, events, file, err, ics_in, ics_out>>

\* lines 353-359
WriteFile ==
    /\ pc = "write"
    /\ file' = ics
    /\ pc' = "done"
    /\ UNCHANGED <<listing, now, found_links, links, i, url, title_guess, detail_html, text,
                   dtstart, dtend, all_day, events, ics, err, ics_in, ics_out>>

Next ==
    \/ ExtractLinks
    \/ NextLink
    \/ FetchDetail
    \/ FetchFails
    \/ ParseDetail
    \/ BuildIcs
    \/ WriteFile

Spec == Init /\ [][Next]_vars

-----------------------------------------------------------------------------
(* extract_event_links_from_form_list on its own                           *)

InitLinks ==
    /\ pc = "listing"
    /\ listing \in ExtractorPages
    /\ now \in Clocks
    /\ Idle

ExtractOnly ==
    /\ pc = "listing"
    /\ found_links' = extract_event_links_from_form_list(listing)
    /\ pc' = "extracted"
    /\ UNCHANGED <<listing, now, links, i, url, title_guess, detail_html, text, dtstart,
                   dtend, all_day, events, ics, file, err, ics_in, ics_out>>

NextLinks == ExtractOnly

SpecLinks == InitLinks /\ [][NextLinks]_vars

-----------------------------------------------------------------------------
(* build_ics on its own: a call and a second call, kept side by side       *)

InitIcs ==
    /\ pc = "first call"
    /\ listing = <<>>
    /\ now \in Clocks
    /\ Idle

\* build_ics(evs) under some clock
SerializeFirst ==
    /\ pc = "first call"
    /\ \E evs \in EventLists, clock \in Clocks :
          /\ now' = clock
          /\ ics_in' = <<evs>>
          /\ ics_out' = <<build_ics(evs, clock)>>
    /\ pc' = "second call"
    /\ UNCHANGED <<listing, found_links, links, i, url, title_guess, detail_html, text,
                   dtstart, dtend, all_day, events, ics, file, err>>

\* build_ics again, on the same or another list, under the same or another clock
SerializeAgain ==
    /\ pc = "second call"
    /\ \E evs \in EventLists, clock \in Clocks :
          /\ now' = clock
          /\ ics_in' = Append(ics_in, evs)
          /\ ics_out' = Append(ics_out, build_ics(evs, clock))
    /\ pc' = "compared"
    /\ UNCHANGED <<listing, found_links, links, i, url, title_guess, detail_html, text,
                   dtstart, dtend, all_day, events, ics, file, err>>

NextIcs == SerializeFirst \/ SerializeAgain

SpecIcs == InitIcs /\ [][NextIcs]_vars

-----------------------------------------------------------------------------
(* Properties                                                              *)

Last(s) == s[Len(s)]

\* the members of a finite set of integers, ascending
RECURSIVE Ascending(_)
Ascending(S) == IF S = {} THEN <<>> ELSE <<MinOf(S)>> \o Ascending(S \ {MinOf(S)})

\* days from 0001-01-01 to the day of dt
RECURSIVE DaysBeforeMonth(_, _)
DaysBeforeMonth(y, m) ==
    IF m = 1 THEN 0 ELSE DaysBeforeMonth(y, m - 1) + DaysInMonth(y, m - 1)

DayOf(dt) ==
    LET y == dt.year - 1
    IN  365 * y + (y \div 4) - (y \div 100) + (y \div 400)
        + DaysBeforeMonth(dt.year, dt.month) + dt.day - 1

\* minutes from a to b
MinutesBetween(a, b) ==
    ((DayOf(b) - DayOf(a)) * 24 + b.hour - a.hour) * 60 + b.minute - a.minute

\* the step of the link loop that parses the page just fetched
FlatText == Collapse(detail_html)
Appends == Len(events') = Len(events) + 1
Continues == pc' = "loop" /\ i' = i + 1
\* the link just parsed was appended (urls of links are distinct)
JustAppended == pc = "loop" /\ i > 1 /\ events # <<>> /\ Last(events).url = url

\* the three numbers of a date token a/b/y and the digits of y
TokenParts(tok) ==
    LET s1 == IndexFrom(tok, "/", 1)
        s2 == IndexFrom(tok, "/", s1 + 1)
    IN  [a |-> ToInt(SubSeq(tok, 1, s1 - 1)),
         b |-> ToInt(SubSeq(tok, s1 + 1, s2 - 1)),
         y |-> ToInt(SubSeq(tok, s2 + 1, Len(tok))),
         ydigits |-> Len(tok) - s2]

FirstDateToken(txt) == TokenParts(SubSeq(txt, SearchDate(txt).from, SearchDate(txt).to))

\* the year a token names: its number when written with more than two
\* digits, else the year of that ending within 50 years of the current one
TokenYear(t, this_year) ==
    IF t.ydigits > 2 THEN t.y
    ELSE CHOOSE y \in (this_year - 50)..(this_year + 49) : y % 100 = t.y

\* the token read month-first names a day of the calendar
MonthFirstValid(t, this_year) ==
    /\ t.a \in 1..12
    /\ TokenYear(t, this_year) \in 1..9999
    /\ t.b \in 1..DaysInMonth(TokenYear(t, this_year), t.a)

\* C2: a detail page with no short-form date in its text and no parenthesized
\* date in its title appends no event and the loop goes on to the next link;
\* every event of the list handed to build_ics has a dtstart.
C2_DroppedWithoutDate ==
    /\ [][(/\ pc = "parse"
           /\ SearchDate(FlatText) = None
           /\ SearchTitleDate(title_guess) = None)
          => (events' = events /\ Continues)]_vars
    /\ [](\A k \in 1..Len(events) :
             events[k].dtstart # None /\ ~Raises(events[k].dtstart))

C2_Witness ==
    /\ pc = "loop" /\ i = 2 /\ Len(links) = 2 /\ events = <<>>
    /\ text # <<>>
    /\ SearchDate(text) = None
    /\ SearchTitleDate(title_guess) = None

\* C3 as stated: whenever the text holds a short-form date token, the emitted
\* event starts on the date the first token denotes, whatever the title.
C3_TextTokenAlwaysWins ==
    [][(pc = "parse" /\ Appends /\ SearchDate(FlatText) # None)
       => LET t == FirstDateToken(FlatText)
              d == Last(events').dtstart
          IN  /\ d.month = t.a
              /\ d.day = t.b
              /\ IF t.ydigits > 2 THEN d.year = t.y ELSE d.year % 100 = t.y]_vars

\* C3 amended: whenever the first short-form date token of the text is a
\* valid month-first date, the emitted event starts on that date, whatever
\* the title (also a title carrying another parenthesized date).
C3_ValidTextTokenWins ==
    [][(/\ pc = "parse" /\ Appends
        /\ SearchDate(FlatText) # None
        /\ MonthFirstValid(FirstDateToken(FlatText), now.year))
       => LET t == FirstDateToken(FlatText)
              d == Last(events').dtstart
          IN  /\ d.year = TokenYear(t, now.year)
              /\ d.month = t.a
              /\ d.day = t.b]_vars

C3_Witness ==
    /\ JustAppended
    /\ SearchDate(text) # None
    /\ MonthFirstValid(FirstDateToken(text), now.year)
    /\ SearchTitleDate(title_guess) # None
    /\ dtstart.month = 3 /\ dtstart.day = 5

\* the hour and minute of a clock token h:mm AM|PM, on the 24-hour clock
ClockParts(tok) ==
    LET colon == IndexFrom(tok, ":", 1)
        h == ToInt(SubSeq(tok, 1, colon - 1))
        pm == Lower(tok[Len(tok) - 1]) = "p"
    IN  [h12 |-> h,
         hour |-> (h % 12) + (IF pm THEN 12 ELSE 0),
         minute |-> ToInt(SubSeq(tok, colon + 1, colon + 2))]

FirstClockToken(txt) == ClockParts(SubSeq(txt, SearchClock(txt).from, SearchClock(txt).to))

\* the event is timed: it starts on the resolved date at the time of the first
\* clock token of the text and ends two hours later
TimedAt(ev, date, clock) ==
    /\ ev.all_day = FALSE
    /\ ev.dtstart = [date EXCEPT !.hour = clock.hour, !.minute = clock.minute]
    /\ MinutesBetween(ev.dtstart, ev.dtend) = 120

\* C4 as stated: every emitted event whose text holds a 12-hour clock token
\* is timed at that clock time and lasts two hours.
C4_ClockTokenAlwaysTimes ==
    [][(pc = "parse" /\ Appends /\ SearchClock(FlatText) # None)
       => TimedAt(Last(events'), ResolveDate(FlatText, title_guess, now.year),
                  FirstClockToken(FlatText))]_vars

\* C4 amended: every emitted event whose first clock token has an hour of at
\* most 12 and a minute of at most 59 is timed at that clock time on the
\* resolved date and lasts two hours.
C4_ValidClockTokenTimes ==
    [][(/\ pc = "parse" /\ Appends
        /\ SearchClock(FlatText) # None
        /\ FirstClockToken(FlatText).h12 <= 12
        /\ FirstClockToken(FlatText).minute <= 59)
       => TimedAt(Last(events'), ResolveDate(FlatText, title_guess, now.year),
                  FirstClockToken(FlatText))]_vars

C4_Witness ==
    /\ JustAppended
    /\ SearchClock(text) # None
    /\ all_day = FALSE
    /\ dtstart.hour = 19
    /\ Last(events).dtend = dtend

C7_NoParseErrorPropagates ==
    [][pc = "parse" => err' # ValueError]_vars

\* C8: when fetching a detail page fails, the link is skipped and the loop
\* goes on with the next link, the events gathered so far kept.
C8_FetchFailureSkipsLink ==
    [][(pc = "goto" /\ pc' # "parse")
       => (Continues /\ events' = events /\ err' = None)]_vars

\* the found entries, in merge order, that carry the url u
FoundWith(found, u) == {k \in 1..Len(found) : found[k].url = u}

\* element e2 holds in its click handler the reference e1 holds as plain href
SameReference(e1, e2) ==
    /\ e1.tag = <<"a">>
    /\ MatchAt(e1.href, 1, FormDetailQuery)
    /\ Contains(e1.href, IdParam)
    /\ e2.onclick = <<"L","i","n","k","T","o","(","'">> \o e1.href \o <<"'",",","'","'",")">>

\* C1: the returned links hold no url twice; each returned title is that of
\* the first occurrence of its url in merge order (anchor pass, click-handler
\* pass, regex pass) and every url found is returned; a url written both as a
\* plain anchor href and inside a click handler is returned exactly once.
C1_DedupFirstWins ==
    pc = "extracted" =>
        \E found \in {FoundInPage(listing)} :
            /\ \A a, b \in 1..Len(found_links) :
                  a # b => found_links[a].url # found_links[b].url
            /\ \A a \in 1..Len(found_links) :
                  /\ FoundWith(found, found_links[a].url) # {}
                  /\ found_links[a].title
                       = found[MinOf(FoundWith(found, found_links[a].url))].title
            /\ \A k \in 1..Len(found) :
                  \E a \in 1..Len(found_links) : found_links[a].url = found[k].url
            /\ \A m, n \in 1..Len(listing) :
                  SameReference(listing[m], listing[n])
                  => Cardinality({a \in 1..Len(found_links) :
                                     found_links[a].url
                                       = SiteBase \o Unescape(listing[m].href)}) = 1

\* a click-handler row ahead of the anchor to the same event, whose title wins
C1_Witness ==
    /\ pc = "extracted"
    /\ Len(listing) = 2
    /\ listing[1].tag = <<"t","r">>
    /\ SameReference(listing[2], listing[1])
    /\ Len(found_links) = 1
    /\ found_links[1].title = Collapse(listing[2].text)
    /\ found_links[1].title # Collapse(listing[1].text)

\* "ID=" followed by a digit
HasNumericId(u) ==
    \E p \in 1..Len(u) : MatchAt(u, p, IdParam) /\ CharAt(u, p + Len(IdParam)) \in Digit

LinesOf(doc) ==
    LET ends == Ascending({p \in 1..Len(doc) : MatchAt(doc, p, CRLF)})
    IN  [j \in 1..Len(ends) |->
            SubSeq(doc, IF j = 1 THEN 1 ELSE ends[j - 1] + 2, ends[j] - 1)]

\* the lines of a document that begin with "UID:", in order
UidLines(doc) == SelectSeq(LinesOf(doc), LAMBDA l : MatchAt(l, 1, <<"U","I","D",":">>))

\* C6: the UID line written for an event is a function of its url and summary
\* alone: two events with the same url and summary get the same UID line, in
\* one call or in two, whatever the clock, their other fields, their
\* neighbours and their places in the lists.
C6_UidFromUrlAndSummary ==
    \E uids \in {[r \in 1..Len(ics_out) |-> UidLines(ics_out[r])]} :
        \A r1, r2 \in 1..Len(ics_out) :
            /\ Len(uids[r1]) = Len(ics_in[r1])
            /\ \A k1 \in 1..Len(ics_in[r1]), k2 \in 1..Len(ics_in[r2]) :
                  (/\ ics_in[r1][k1].url = ics_in[r2][k2].url
                   /\ ics_in[r1][k1].summary = ics_in[r2][k2].summary)
                  => uids[r1][k1] = uids[r2][k2]

\* two calls under different clocks, the same url and summary at different
\* places, all-day in one and timed in the other
C6_Witness ==
    /\ pc = "compared"
    /\ Len(ics_in[1]) = 1 /\ Len(ics_in[2]) = 2
    /\ ics_in[1][1].url = ics_in[2][2].url
    /\ ics_in[1][1].summary = ics_in[2][2].summary
    /\ ics_in[1][1].all_day # ics_in[2][2].all_day
    /\ ics_in[2][1].url # ics_in[2][2].url
    /\ LinesOf(ics_out[1])[7] # LinesOf(ics_out[2])[7]
    /\ UidLines(ics_out[1])[1] = UidLines(ics_out[2])[2]

\* the document is the header, one closed block per event in the order of
\* the list, and the footer
WellFormed(doc, evs) ==
    \E L \in {LinesOf(doc)} :
    \E B \in {Ascending({j \in 1..Len(L) : L[j] = <<"B","E","G","I","N",":","V","E","V","E","N","T">>})} :
    \E E \in {Ascending({j \in 1..Len(L) : L[j] = <<"E","N","D",":","V","E","V","E","N","T">>})} :
        /\ MatchAt(doc, Len(doc) - 1, CRLF)
        /\ Len(L) >= Len(HeaderLines) + 1
        /\ SubSeq(L, 1, Len(HeaderLines)) = HeaderLines
        /\ L[Len(L)] = <<"E","N","D",":","V","C","A","L","E","N","D","A","R">>
        /\ \A j \in 1..(Len(L) - 1) : L[j] # <<"E","N","D",":","V","C","A","L","E","N","D","A","R">>
        /\ Len(B) = Len(evs)
        /\ Len(E) = Len(evs)
        /\ \A k \in 1..Len(evs) :
              /\ B[k] = IF k = 1 THEN Len(HeaderLines) + 1 ELSE E[k - 1] + 1
              /\ B[k] < E[k]
              /\ k = Len(evs) => E[k] = Len(L) - 1
              /\ L[B[k] + 1] = <<"U","I","D",":">> \o UidOf(evs[k])
              /\ MatchAt(L[B[k] + 3], 1,
                         IF evs[k].all_day THEN <<"D","T","S","T","A","R","T",";","V","A","L","U","E","=","D","A","T","E",":">> ELSE <<"D","T","S","T","A","R","T",":">>)
        /\ evs = <<>> => L = HeaderLines \o << <<"E","N","D",":","V","C","A","L","E","N","D","A","R">> >>

\* C10: build_ics emits the header lines, then one BEGIN:VEVENT ... END:VEVENT
\* block per event in the order of the list, each closed before the next
\* opens, then END:VCALENDAR as the last line; for no events, the header and
\* the footer alone.
C10_HeaderBlocksFooter ==
    \A r \in 1..Len(ics_out) :
        r = Len(ics_out) => WellFormed(ics_out[r], ics_in[r])

\* two events in one call, the second one with line breaks in its fields
C10_Witness ==
    /\ pc = "second call"
    /\ Len(ics_in[1]) = 2
    /\ ics_in[1][1].all_day = FALSE
    /\ Contains(ics_in[1][2].description, CRLF)
    /\ ics_in[1][1].location = <<>>
    /\ Len(LinesOf(ics_out[1])) = 22

====
